---- MODULE Spec2Model ----
(***************************************************************************)
(* Slug-assignment protocol of sundayezeilo/urlshortener.                  *)
(*                                                                         *)
(* The model covers the Service (internal/shortener/service.go), the       *)
(* repository and its error translation (repo_sqlc.go, repo_errors.go),    *)
(* the error values of internal/errx, the slug and id generators and the   *)
(* links table with its statements (db/queries/shortener.sql) and its      *)
(* constraints (db/migrations/..._create_links_table.up.sql, the variant   *)
(* with deleted_at that the statements are written against).               *)
(*                                                                         *)
(* Strings are sequences of code points.  Every Service call is a process  *)
(* that moves from one store or generator call to the next; each SQL       *)
(* statement is one atomic step.                                           *)
(***************************************************************************)
EXTENDS Integers, Sequences, FiniteSets, TLC

\* ------------------------------------------------------------------------
\* Bounds of the model
\* ------------------------------------------------------------------------

\* number of concurrently running Service calls
NumProcs == 2

\* total number of Service calls started in one behaviour
MaxCalls == 3

Procs == 1..NumProcs

\* ------------------------------------------------------------------------
\* Program constants
\* ------------------------------------------------------------------------

DefaultSlugLength == 7

MaxSlugLength == 64

MinSlugLength == 3

MaxURLLength == 2048

MaxRetries == 3

\* retry budget idgen.NewV7 is built with by NewRepository
IdGenRetries == 1

\* CHECK (char_length(slug) <= 32)
SchemaMaxSlugLength == 32

\* code points the slug rules name
Dash == 45

Underscore == 95

\* "0123456789ABCDEFGHIJKLMNOPQRSTUVWXYZabcdefghijklmnopqrstuvwxyz"
base62Chars ==
    [i \in 1..62 |-> IF i <= 10 THEN 47 + i ELSE IF i <= 36 THEN 54 + i ELSE 60 + i]

\* names the schema gives its unique indexes, and the name the repository expects
SchemaSlugIndex == "links_slug_unique_active"

SchemaPrimaryKey == "links_pkey"

ExpectedSlugConstraint == "links_slug_unique"

\* ------------------------------------------------------------------------
\* errx: error values
\* ------------------------------------------------------------------------

Kinds == {"Unknown", "NotFound", "Conflict", "Invalid", "Unauthorized",
          "Forbidden", "Unavailable", "Internal"}

\* a raw (unclassified) error: pgx.ErrNoRows, a *pgconn.PgError, or a plain error
RawError(type, code, constraint) ==
    [frames |-> << >>, type |-> type, code |-> code, constraint |-> constraint]

Nil == [frames |-> << >>, type |-> "nil", code |-> "", constraint |-> ""]

ErrNoRows == RawError("ErrNoRows", "", "")

PlainError(msg) == RawError(msg, "", "")

PgError(code, constraint) == RawError("PgError", code, constraint)

\* a wrapper that keeps neither the cause nor the frames below it
E_DropsCause(op, kind, err) ==
    IF err = Nil THEN Nil
    ELSE [frames |-> << [op |-> op, kind |-> kind] >>, type |-> "errx.Error",
          code |-> "", constraint |-> ""]

\* errx.E: wraps err in one more frame (op, kind); nil stays nil
E(op, kind, err) ==
    IF err = Nil THEN Nil
    ELSE [err EXCEPT !.frames = << [op |-> op, kind |-> kind] >> \o @]

\* errx.KindOf: kind of the outermost *Error in the chain
KindOf(err) ==
    IF Len(err.frames) > 0 THEN err.frames[1].kind ELSE "Unknown"

\* errx.OpOf: op of the outermost *Error in the chain
OpOf(err) ==
    IF Len(err.frames) > 0 THEN err.frames[1].op ELSE ""

\* ------------------------------------------------------------------------
\* Strings
\* ------------------------------------------------------------------------

\* the string made of n copies of code point c
Rep(c, n) == [i \in 1..n |-> c]

EmptyString == << >>

\* strings.HasPrefix / strings.HasSuffix with a one-character argument
HasPrefix(s, c) == Len(s) >= 1 /\ s[1] = c

HasSuffix(s, c) == Len(s) >= 1 /\ s[Len(s)] = c

\* number of bytes of the UTF-8 encoding of code point c
UTF8Width(c) == IF c < 128 THEN 1 ELSE IF c < 2048 THEN 2 ELSE IF c < 65536 THEN 3 ELSE 4

\* len(s) of a Go string: its length in bytes
RECURSIVE ByteLen(_)
ByteLen(s) == IF s = << >> THEN 0 ELSE UTF8Width(Head(s)) + ByteLen(Tail(s))

\* ------------------------------------------------------------------------
\* service.go: validation
\* ------------------------------------------------------------------------

\* a character rule that also lets the dot through
isValidSlugChar_AllowsDot(c) ==
    \/ (c >= 48 /\ c <= 57)
    \/ (c >= 65 /\ c <= 90)
    \/ (c >= 97 /\ c <= 122)
    \/ c = Dash
    \/ c = Underscore
    \/ c = 46

isValidSlugChar(c) ==
    \/ (c >= 48 /\ c <= 57)
    \/ (c >= 65 /\ c <= 90)
    \/ (c >= 97 /\ c <= 122)
    \/ c = Dash
    \/ c = Underscore

\* slug validation without the rule on the first and last character
validateSlug_NoEdgeRule(slug) ==
    IF slug = EmptyString THEN PlainError("slug cannot be empty")
    ELSE IF ByteLen(slug) < MinSlugLength THEN PlainError("slug too short")
    ELSE IF ByteLen(slug) > MaxSlugLength THEN PlainError("slug too long")
    ELSE IF \E i \in 1..Len(slug) : ~isValidSlugChar(slug[i])
         THEN PlainError("slug contains invalid characters")
    ELSE Nil

validateSlug(slug) ==
    IF slug = EmptyString THEN PlainError("slug cannot be empty")
    ELSE IF ByteLen(slug) < MinSlugLength THEN PlainError("slug too short")
    ELSE IF ByteLen(slug) > MaxSlugLength THEN PlainError("slug too long")
    ELSE IF HasPrefix(slug, Dash) \/ HasPrefix(slug, Underscore)
            \/ HasSuffix(slug, Dash) \/ HasSuffix(slug, Underscore)
         THEN PlainError("slug cannot start or end with dash or underscore")
    ELSE IF \E i \in 1..Len(slug) : ~isValidSlugChar(slug[i])
         THEN PlainError("slug contains invalid characters")
    ELSE Nil

\* a lookup validation that lets the empty slug through
validateSlugNotEmpty_AcceptsAll(slug) == Nil

validateSlugNotEmpty(slug) ==
    IF slug = EmptyString THEN PlainError("slug cannot be empty") ELSE Nil

\* The raw URLs the model feeds to Create, with what len() and url.Parse
\* give for each of them.
RawURLs == {"", "https://example.com", "http://example.com/x", "ftp://example.com",
            "https://", "example.com", "https://example.com/<2049 chars>", "http://[::1"}

URLLen(rawURL) ==
    CASE rawURL = "" -> 0
      [] rawURL = "https://example.com" -> 19
      [] rawURL = "http://example.com/x" -> 20
      [] rawURL = "ftp://example.com" -> 17
      [] rawURL = "https://" -> 8
      [] rawURL = "example.com" -> 11
      [] rawURL = "https://example.com/<2049 chars>" -> 2049
      [] rawURL = "http://[::1" -> 11

\* url.Parse
URLParse(rawURL) ==
    CASE rawURL = "https://example.com" -> [ok |-> TRUE, Scheme |-> "https", Host |-> "example.com"]
      [] rawURL = "http://example.com/x" -> [ok |-> TRUE, Scheme |-> "http", Host |-> "example.com"]
      [] rawURL = "ftp://example.com" -> [ok |-> TRUE, Scheme |-> "ftp", Host |-> "example.com"]
      [] rawURL = "https://" -> [ok |-> TRUE, Scheme |-> "https", Host |-> ""]
      [] rawURL = "example.com" -> [ok |-> TRUE, Scheme |-> "", Host |-> ""]
      [] rawURL = "https://example.com/<2049 chars>" -> [ok |-> TRUE, Scheme |-> "https", Host |-> "example.com"]
      [] rawURL = "http://[::1" -> [ok |-> FALSE, Scheme |-> "", Host |-> ""]
      [] rawURL = "" -> [ok |-> TRUE, Scheme |-> "", Host |-> ""]

validateURL(rawURL) ==
    IF rawURL = "" THEN PlainError("url cannot be empty")
    ELSE IF URLLen(rawURL) > MaxURLLength THEN PlainError("url too long")
    ELSE IF ~URLParse(rawURL).ok THEN PlainError("invalid url format")
    ELSE IF URLParse(rawURL).Scheme = "" THEN PlainError("url must include scheme")
    ELSE IF URLParse(rawURL).Scheme # "http" /\ URLParse(rawURL).Scheme # "https"
         THEN PlainError("url scheme must be http or https")
    ELSE IF URLParse(rawURL).Host = "" THEN PlainError("url must include host")
    ELSE Nil

\* ------------------------------------------------------------------------
\* sluggen: base62Generator.Generate on the bytes rand.Read delivered
\* ------------------------------------------------------------------------

\* a generator that maps the bytes onto the 64 characters of URL-safe base64
Generate_Base64(length, readErr, b) ==
    IF length <= 0
    THEN [slug |-> EmptyString, err |-> PlainError("length must be positive"), reads |-> 0]
    ELSE IF readErr
    THEN [slug |-> EmptyString, err |-> PlainError("rand.Read failed"), reads |-> 1]
    ELSE [slug |-> [i \in 1..length |-> (base62Chars \o << Dash, Underscore >>)[(b[i] % 64) + 1]],
          err |-> Nil, reads |-> 1]

\* reads: the number of rand.Read calls made
Generate(length, readErr, b) ==
    IF length <= 0
    THEN [slug |-> EmptyString, err |-> PlainError("length must be positive"), reads |-> 0]
    ELSE IF readErr
    THEN [slug |-> EmptyString, err |-> PlainError("rand.Read failed"), reads |-> 1]
    ELSE [slug |-> [i \in 1..length |-> base62Chars[(b[i] % Len(base62Chars)) + 1]],
          err |-> Nil, reads |-> 1]

\* a constructor that takes the configured length as it comes
NewServiceSlugLength_NoFallback(configured) == configured

\* NewService: the slug length the Service works with
NewServiceSlugLength(configured) ==
    IF configured < MinSlugLength \/ configured > MaxSlugLength
    THEN DefaultSlugLength
    ELSE configured

\* ------------------------------------------------------------------------
\* idgen: v7Gen.Generate.  outcomes[k] tells whether the k-th uuid.NewV7()
\* call succeeds; id is the value a successful call yields; 0 is uuid.Nil.
\* ------------------------------------------------------------------------

\* NewV7(WithRetries(n)): the retry budget of the generator
V7MaxRetries(n) == IF n >= 0 THEN n ELSE 1

\* a loop that counts the first attempt as a retry
RECURSIVE V7Loop_OffByOne(_, _, _, _)
V7Loop_OffByOne(attempt, maxRetries, outcomes, id) ==
    IF attempt < maxRetries
    THEN IF outcomes[attempt + 1]
         THEN [id |-> id, err |-> Nil, attempts |-> attempt + 1]
         ELSE V7Loop_OffByOne(attempt + 1, maxRetries, outcomes, id)
    ELSE [id |-> 0, err |-> PlainError("uuid v7 generation failed"), attempts |-> attempt]

RECURSIVE V7Loop(_, _, _, _)
V7Loop(attempt, maxRetries, outcomes, id) ==
    IF attempt <= maxRetries
    THEN IF outcomes[attempt + 1]
         THEN [id |-> id, err |-> Nil, attempts |-> attempt + 1]
         ELSE V7Loop(attempt + 1, maxRetries, outcomes, id)
    ELSE [id |-> 0, err |-> PlainError("uuid v7 generation failed"), attempts |-> attempt]

V7Generate(maxRetries, outcomes, id) == V7Loop(0, maxRetries, outcomes, id)

\* ------------------------------------------------------------------------
\* The links table and its statements.  A timestamp is a reading of the
\* logical clock; NULL is the absent timestamp.
\* ------------------------------------------------------------------------

NULL == 0

NoRow == [id |-> 0, original_url |-> "", slug |-> EmptyString, access_count |-> 0,
          created_at |-> NULL, updated_at |-> NULL, last_accessed_at |-> NULL,
          deleted_at |-> NULL]

\* a WHERE clause that does not look at deleted_at
LiveRows_IgnoresDeleted(table, s) ==
    {i \in 1..Len(table) : table[i].slug = s}

\* positions of the rows WHERE slug = $1 AND deleted_at IS NULL
LiveRows(table, s) ==
    {i \in 1..Len(table) : table[i].slug = s /\ table[i].deleted_at = NULL}

ConnError == PlainError("connection refused")

\* CHECK (char_length(slug) <= 32)
SlugCheckViolated(s) == Len(s) > SchemaMaxSlugLength

\* id UUID PRIMARY KEY
PrimaryKeyViolated(table, id) == \E i \in 1..Len(table) : table[i].id = id

\* the table without its unique index on slug
SlugIndexViolated_NoIndex(table, s) == FALSE

\* CREATE UNIQUE INDEX links_slug_unique_active ON links (slug) WHERE deleted_at IS NULL
SlugIndexViolated(table, s) == LiveRows(table, s) # {}

\* an INSERT whose row stays in the table when the slug index rejects it
CreateLink_NoRollback(table, t, up, id, url, s) ==
    LET row == [id |-> id, original_url |-> url, slug |-> s, access_count |-> 0,
                created_at |-> t, updated_at |-> t, last_accessed_at |-> NULL,
                deleted_at |-> NULL]
    IN  IF ~up THEN [table |-> table, row |-> NoRow, err |-> ConnError]
        ELSE IF SlugCheckViolated(s)
        THEN [table |-> table, row |-> NoRow, err |-> PgError("23514", "links_slug_check")]
        ELSE IF PrimaryKeyViolated(table, id)
        THEN [table |-> table, row |-> NoRow, err |-> PgError("23505", SchemaPrimaryKey)]
        ELSE IF SlugIndexViolated(table, s)
        THEN [table |-> Append(table, row), row |-> NoRow,
              err |-> PgError("23505", SchemaSlugIndex)]
        ELSE [table |-> Append(table, row), row |-> row, err |-> Nil]

\* CreateLink :one -- INSERT INTO links (id, original_url, slug) ... RETURNING *
CreateLink(table, t, up, id, url, s) ==
    LET row == [id |-> id, original_url |-> url, slug |-> s, access_count |-> 0,
                created_at |-> t, updated_at |-> t, last_accessed_at |-> NULL,
                deleted_at |-> NULL]
    IN  IF ~up THEN [table |-> table, row |-> NoRow, err |-> ConnError]
        ELSE IF SlugCheckViolated(s)
        THEN [table |-> table, row |-> NoRow, err |-> PgError("23514", "links_slug_check")]
        ELSE IF PrimaryKeyViolated(table, id)
        THEN [table |-> table, row |-> NoRow, err |-> PgError("23505", SchemaPrimaryKey)]
        ELSE IF SlugIndexViolated(table, s)
        THEN [table |-> table, row |-> NoRow, err |-> PgError("23505", SchemaSlugIndex)]
        ELSE [table |-> Append(table, row), row |-> row, err |-> Nil]

\* a SELECT without the deleted_at condition
GetLinkBySLug_SeesDeleted(table, up, s) ==
    LET hit == {i \in 1..Len(table) : table[i].slug = s}
    IN  IF ~up THEN [row |-> NoRow, err |-> ConnError]
        ELSE IF hit = {} THEN [row |-> NoRow, err |-> ErrNoRows]
        ELSE [row |-> table[CHOOSE i \in hit : \A j \in hit : i <= j], err |-> Nil]

\* GetLinkBySLug :one -- SELECT ... WHERE slug = $1 AND deleted_at IS NULL
GetLinkBySLug(table, up, s) ==
    IF ~up THEN [row |-> NoRow, err |-> ConnError]
    ELSE IF LiveRows(table, s) = {} THEN [row |-> NoRow, err |-> ErrNoRows]
    ELSE [row |-> table[CHOOSE i \in LiveRows(table, s) : \A j \in LiveRows(table, s) : i <= j],
          err |-> Nil]

\* a SET clause that counts the first access only
TrackedRow_FirstOnly(r, t) ==
    [r EXCEPT !.access_count = IF @ = 0 THEN 1 ELSE @, !.last_accessed_at = t, !.updated_at = t]

\* the SET clause of ResolveAndTrack and the links_set_updated_at trigger
TrackedRow(r, t) ==
    [r EXCEPT !.access_count = @ + 1, !.last_accessed_at = t, !.updated_at = t]

\* an UPDATE that also blanks the destination of the rows it tracks
ResolveAndTrackLink_ClearsURL(table, t, up, s) ==
    LET hit == LiveRows(table, s)
        updated == [i \in 1..Len(table) |->
                        IF i \in hit
                        THEN [TrackedRow(table[i], t) EXCEPT !.original_url = ""]
                        ELSE table[i]]
    IN  IF ~up THEN [table |-> table, row |-> NoRow, err |-> ConnError]
        ELSE IF hit = {} THEN [table |-> table, row |-> NoRow, err |-> ErrNoRows]
        ELSE [table |-> updated,
              row |-> updated[CHOOSE i \in hit : \A j \in hit : i <= j],
              err |-> Nil]

\* ResolveAndTrack :one -- UPDATE links SET ... WHERE slug = $1 AND deleted_at IS NULL RETURNING *
ResolveAndTrackLink(table, t, up, s) ==
    LET hit == LiveRows(table, s)
        updated == [i \in 1..Len(table) |-> IF i \in hit THEN TrackedRow(table[i], t) ELSE table[i]]
    IN  IF ~up THEN [table |-> table, row |-> NoRow, err |-> ConnError]
        ELSE IF hit = {} THEN [table |-> table, row |-> NoRow, err |-> ErrNoRows]
        ELSE [table |-> updated,
              row |-> updated[CHOOSE i \in hit : \A j \in hit : i <= j],
              err |-> Nil]

\* a soft delete that also clears the access counter
DeleteLink_ResetsCount(table, t, up, s) ==
    LET hit == LiveRows(table, s)
    IN  IF ~up THEN [table |-> table, err |-> ConnError]
        ELSE [table |-> [i \in 1..Len(table) |->
                            IF i \in hit
                            THEN [table[i] EXCEPT !.deleted_at = t, !.updated_at = t,
                                                  !.access_count = 0]
                            ELSE table[i]],
              err |-> Nil]

\* SoftDeleteLink :exec -- UPDATE links SET deleted_at = now(), updated_at = now() WHERE ...
DeleteLink(table, t, up, s) ==
    LET hit == LiveRows(table, s)
    IN  IF ~up THEN [table |-> table, err |-> ConnError]
        ELSE [table |-> [i \in 1..Len(table) |->
                            IF i \in hit
                            THEN [table[i] EXCEPT !.deleted_at = t, !.updated_at = t]
                            ELSE table[i]],
              err |-> Nil]

\* ------------------------------------------------------------------------
\* repo_sqlc.go, repo_errors.go
\* ------------------------------------------------------------------------

NoLink == [ID |-> 0, OriginalURL |-> "", Slug |-> EmptyString, AccessCount |-> 0,
           CreatedAt |-> NULL, UpdatedAt |-> NULL, LastAccessedAt |-> NULL]

\* a test that takes every unique violation for one of the slug
isSlugUniqueViolation_AnyConstraint(err) ==
    /\ err.type = "PgError"
    /\ err.code = "23505"

isSlugUniqueViolation(err) ==
    /\ err.type = "PgError"
    /\ err.code = "23505"
    /\ err.constraint = ExpectedSlugConstraint

mapRepoError(op, err) ==
    IF err.type = "ErrNoRows" THEN E(op, "NotFound", err)
    ELSE IF isSlugUniqueViolation(err) THEN E(op, "Conflict", err)
    ELSE E(op, "Unavailable", err)

\* a conversion that leaves LastAccessedAt unset
toDomainLink_NoLastAccessed(x) ==
    IF x.created_at = NULL
    THEN [link |-> NoLink, err |-> PlainError("created_at unexpectedly NULL")]
    ELSE IF x.updated_at = NULL
    THEN [link |-> NoLink, err |-> PlainError("updated_at unexpectedly NULL")]
    ELSE [link |-> [ID |-> x.id, OriginalURL |-> x.original_url, Slug |-> x.slug,
                    AccessCount |-> x.access_count, CreatedAt |-> x.created_at,
                    UpdatedAt |-> x.updated_at, LastAccessedAt |-> NULL],
          err |-> Nil]

toDomainLink(x) ==
    IF x.created_at = NULL
    THEN [link |-> NoLink, err |-> PlainError("created_at unexpectedly NULL")]
    ELSE IF x.updated_at = NULL
    THEN [link |-> NoLink, err |-> PlainError("updated_at unexpectedly NULL")]
    ELSE [link |-> [ID |-> x.id, OriginalURL |-> x.original_url, Slug |-> x.slug,
                    AccessCount |-> x.access_count, CreatedAt |-> x.created_at,
                    UpdatedAt |-> x.updated_at, LastAccessedAt |-> x.last_accessed_at],
          err |-> Nil]

\* repo.Create: id generation, the INSERT, error translation
RepoCreate(table, t, up, idOutcomes, newId, url, s) ==
    LET g == V7Generate(IdGenRetries, idOutcomes, newId)
        q == CreateLink(table, t, up, g.id, url, s)
    IN  IF g.err # Nil
        THEN [table |-> table, link |-> NoLink, stored |-> FALSE,
              err |-> E("shortener.repo.Create", "Unavailable", g.err)]
        ELSE IF q.err # Nil
        THEN [table |-> q.table, link |-> NoLink, stored |-> TRUE,
              err |-> mapRepoError("shortener.repo.Create", q.err)]
        ELSE [table |-> q.table, link |-> toDomainLink(q.row).link, stored |-> TRUE,
              err |-> toDomainLink(q.row).err]

RepoGetBySlug(table, up, s) ==
    LET q == GetLinkBySLug(table, up, s)
    IN  IF q.err # Nil
        THEN [link |-> NoLink, err |-> mapRepoError("shortener.repo.GetBySlug", q.err)]
        ELSE toDomainLink(q.row)

RepoResolveAndTrack(table, t, up, s) ==
    LET q == ResolveAndTrackLink(table, t, up, s)
    IN  IF q.err # Nil
        THEN [table |-> q.table, link |-> NoLink,
              err |-> mapRepoError("shortener.repo.ResolveAndTrack", q.err)]
        ELSE [table |-> q.table, link |-> toDomainLink(q.row).link,
              err |-> toDomainLink(q.row).err]

\* a repo.Delete that reports a statement that hit no row as NotFound
RepoDelete_NotFoundWhenGone(table, t, up, s) ==
    LET q == DeleteLink(table, t, up, s)
    IN  IF q.err # Nil
        THEN [table |-> q.table, err |-> mapRepoError("shortener.repo.Delete", q.err)]
        ELSE IF q.table = table
        THEN [table |-> q.table, err |-> mapRepoError("shortener.repo.Delete", ErrNoRows)]
        ELSE [table |-> q.table, err |-> Nil]

RepoDelete(table, t, up, s) ==
    LET q == DeleteLink(table, t, up, s)
    IN  IF q.err # Nil
        THEN [table |-> q.table, err |-> mapRepoError("shortener.repo.Delete", q.err)]
        ELSE [table |-> q.table, err |-> Nil]

\* ------------------------------------------------------------------------
\* State
\* ------------------------------------------------------------------------

VARIABLES
    rows,        \* the links table, in insertion order
    now,         \* the store's clock
    slugLength,  \* service.slugLength
    pc,          \* where each caller stands in its Service call
    req,         \* the arguments of that call
    slug,        \* Create's local slug
    attempt,     \* generateUniqueSlug's loop counter
    calls,       \* how often the call has invoked its collaborators
    ret,         \* what the call returned
    started,     \* number of calls started so far
    okCreates,   \* the Links returned by successful Create calls, in order
    okResolves,  \* the ids of the rows successful Resolve calls tracked, in order
    gen,         \* a direct call of Generator.Generate: its argument, its reads
                 \* of the randomness source and its result
    configured,  \* ServiceConfig.SlugLength as handed to NewService
    idgen        \* a direct call of the v7 id generator, and of repo.Create on
                 \* top of it: the retry budget, the outcomes of uuid.NewV7 and
                 \* the results

vars == << rows, now, slugLength, pc, req, slug, attempt, calls, ret,
           started, okCreates, okResolves, gen, configured, idgen >>

\* ------------------------------------------------------------------------
\* Inputs
\* ------------------------------------------------------------------------

\* ServiceConfig.SlugLength the application builds the Service with:
\* NewService(repo, nil), the zero ServiceConfig
ConfiguredSlugLengths == {0}

\* "", "abc" and "-ab"
CustomSlugs == {EmptyString, <<97, 98, 99>>, <<Dash, 97, 98>>}

URLInputs == {"https://example.com", "ftp://example.com"}

\* values of the bytes rand.Read fills the buffer with (both select the character '0')
RandomBytes == {0, 62}

\* slugs GetBySlug, Resolve and Delete are called with
LookupSlugs == {EmptyString, <<97, 98, 99>>} \cup {rows[i].slug : i \in 1..Len(rows)}

\* gen, get, create, track, del: calls of the slug generator, repo.GetBySlug,
\* repo.Create, repo.ResolveAndTrack and repo.Delete; insert: INSERT statements
\* sent to the store; rejected: those among them the slug index rejected;
\* repoKind: the kind of the error the last repo.Create returned ("" when it
\* returned none); genLength: the length last asked of the slug generator
NoCalls == [gen |-> 0, get |-> 0, create |-> 0, track |-> 0, del |-> 0,
            insert |-> 0, rejected |-> 0, repoKind |-> "", genLength |-> 0]

NoRet == [err |-> Nil, link |-> NoLink, url |-> ""]

NoReq == [op |-> "", url |-> "", slug |-> EmptyString]

\* no direct call of the slug generator
NoGen == [length |-> DefaultSlugLength, readErr |-> FALSE, bytes |-> << >>,
          called |-> FALSE, reads |-> 0, slug |-> EmptyString, err |-> Nil]

\* no direct call of the id generator
NoIdGen == [option |-> IdGenRetries, budget |-> IdGenRetries, outcomes |-> << >>, id |-> 0,
            called |-> FALSE, attempts |-> 0, outId |-> 0, err |-> Nil,
            repoCalled |-> FALSE, repoErr |-> Nil, stored |-> FALSE, table |-> << >>]

\* the Service and its store after NewRepository and NewService, the Service
\* built with one of the given slug lengths
InitServiceWith(slugLengths) ==
    /\ rows = << >>
    /\ now = 1
    /\ configured \in slugLengths
    /\ slugLength = NewServiceSlugLength(configured)
    /\ pc = [p \in Procs |-> "idle"]
    /\ req = [p \in Procs |-> NoReq]
    /\ slug = [p \in Procs |-> EmptyString]
    /\ attempt = [p \in Procs |-> 0]
    /\ calls = [p \in Procs |-> NoCalls]
    /\ ret = [p \in Procs |-> NoRet]
    /\ started = 0
    /\ okCreates = << >>
    /\ okResolves = << >>

InitService == InitServiceWith(ConfiguredSlugLengths)

Init == InitService /\ gen = NoGen /\ idgen = NoIdGen

\* a caller enters a Service operation; the results of the calls that have
\* returned were taken by their callers before
Begin(p, op, url, s) ==
    /\ pc[p] = "idle"
    /\ \A q \in Procs : pc[q] # "done"
    /\ started < MaxCalls
    /\ started' = started + 1
    /\ req' = [req EXCEPT ![p] = [op |-> op, url |-> url, slug |-> s]]
    /\ calls' = [calls EXCEPT ![p] = NoCalls]

\* a Service operation returns: its locals are gone, its result is with the caller
Return(p, err, link, url) ==
    /\ pc' = [pc EXCEPT ![p] = "done"]
    /\ ret' = [ret EXCEPT ![p] = [err |-> err, link |-> link, url |-> url]]
    /\ slug' = [slug EXCEPT ![p] = EmptyString]
    /\ attempt' = [attempt EXCEPT ![p] = 0]
    /\ UNCHANGED << gen, configured, idgen >>

\* a Service operation goes on to its next generator or store call
Continue(p, label, s, n) ==
    /\ pc' = [pc EXCEPT ![p] = label]
    /\ slug' = [slug EXCEPT ![p] = s]
    /\ attempt' = [attempt EXCEPT ![p] = n]
    /\ UNCHANGED << ret, gen, configured, idgen >>

\* the caller has taken the result and is free for its next call
Forget(p) ==
    /\ pc[p] = "done"
    /\ pc' = [pc EXCEPT ![p] = "idle"]
    /\ req' = [req EXCEPT ![p] = NoReq]
    /\ calls' = [calls EXCEPT ![p] = NoCalls]
    /\ ret' = [ret EXCEPT ![p] = NoRet]
    /\ UNCHANGED << rows, now, slugLength, slug, attempt, started, okCreates, okResolves,
                    gen, configured, idgen >>

\* ------------------------------------------------------------------------
\* service.Create
\* ------------------------------------------------------------------------

\* a Service that reports every lower-layer error as Internal
ServiceError_Masked(op, err) == E(op, "Internal", err)

\* errx.E(op, errx.KindOf(err), err): the Service hands a lower layer's error on
ServiceError(op, err) == E(op, KindOf(err), err)

ExhaustedError ==
    E("sluggen.Generate", "Unavailable",
      PlainError("failed to generate unique slug after maximum retries"))

\* Create up to its first generator or store call, with its arguments drawn
\* from the given sets
CreateBeginWith(p, urls, customSlugs) ==
    \E url \in urls, customSlug \in customSlugs :
        /\ Begin(p, "shortener.service.Create", url, customSlug)
        /\ IF validateURL(url) # Nil
           THEN Return(p, E("shortener.service.Create", "Invalid", validateURL(url)), NoLink, "")
           ELSE IF customSlug # EmptyString
           THEN IF validateSlug(customSlug) # Nil
                THEN Return(p, E("shortener.service.Create", "Invalid",
                                 validateSlug(customSlug)), NoLink, "")
                ELSE Continue(p, "insert", customSlug, 0)
           ELSE IF 0 < MaxRetries
           THEN Continue(p, "generate", EmptyString, 0)
           ELSE Return(p, ServiceError("shortener.service.Create", ExhaustedError), NoLink, "")
        /\ UNCHANGED << rows, now, slugLength, okCreates, okResolves >>

CreateBegin(p) == CreateBeginWith(p, URLInputs, CustomSlugs)

\* a loop that goes to its next attempt when the generator fails
SlugGenerate_RetriesOnError(p) ==
    /\ pc[p] = "generate"
    /\ \E readErr \in BOOLEAN, byte \in RandomBytes :
         LET g == Generate(slugLength, readErr, Rep(byte, slugLength))
             e == E("sluggen.Generate", "Unavailable", g.err)
         IN  /\ calls' = [calls EXCEPT ![p].gen = @ + 1, ![p].genLength = slugLength]
             /\ IF g.err # Nil
                THEN IF attempt[p] + 1 < MaxRetries
                     THEN Continue(p, "generate", EmptyString, attempt[p] + 1)
                     ELSE Return(p, ServiceError("shortener.service.Create", e), NoLink, "")
                ELSE Continue(p, "precheck", g.slug, attempt[p])
    /\ UNCHANGED << rows, now, slugLength, req, started, okCreates, okResolves >>

\* generateUniqueSlug: s.slugGenerator.Generate(s.slugLength)
SlugGenerate(p) ==
    /\ pc[p] = "generate"
    /\ \E readErr \in BOOLEAN, byte \in RandomBytes :
         LET g == Generate(slugLength, readErr, Rep(byte, slugLength))
             e == E("sluggen.Generate", "Unavailable", g.err)
         IN  /\ calls' = [calls EXCEPT ![p].gen = @ + 1, ![p].genLength = slugLength]
             /\ IF g.err # Nil
                THEN Return(p, ServiceError("shortener.service.Create", e), NoLink, "")
                ELSE Continue(p, "precheck", g.slug, attempt[p])
    /\ UNCHANGED << rows, now, slugLength, req, started, okCreates, okResolves >>

\* a loop whose attempt counter is never advanced
SlugPreCheck_NoIncrement(p) ==
    /\ pc[p] = "precheck"
    /\ \E up \in BOOLEAN :
         LET r == RepoGetBySlug(rows, up, slug[p])
         IN  /\ calls' = [calls EXCEPT ![p].get = @ + 1]
             /\ IF r.err # Nil
                THEN IF KindOf(r.err) = "NotFound"
                     THEN Continue(p, "insert", slug[p], attempt[p])
                     ELSE Return(p, ServiceError("shortener.service.Create", r.err),
                                 NoLink, "")
                ELSE IF attempt[p] < MaxRetries
                THEN Continue(p, "generate", EmptyString, attempt[p])
                ELSE Return(p, ServiceError("shortener.service.Create", ExhaustedError), NoLink, "")
    /\ UNCHANGED << rows, now, slugLength, req, started, okCreates, okResolves >>

\* generateUniqueSlug: s.repo.GetBySlug(ctx, slug) and the end of the loop body
SlugPreCheck(p) ==
    /\ pc[p] = "precheck"
    /\ \E up \in BOOLEAN :
         LET r == RepoGetBySlug(rows, up, slug[p])
         IN  /\ calls' = [calls EXCEPT ![p].get = @ + 1]
             /\ IF r.err # Nil
                THEN IF KindOf(r.err) = "NotFound"
                     THEN Continue(p, "insert", slug[p], attempt[p])
                     ELSE Return(p, ServiceError("shortener.service.Create", r.err),
                                 NoLink, "")
                ELSE IF attempt[p] + 1 < MaxRetries
                THEN Continue(p, "generate", EmptyString, attempt[p] + 1)
                ELSE Return(p, ServiceError("shortener.service.Create", ExhaustedError), NoLink, "")
    /\ UNCHANGED << rows, now, slugLength, req, started, okCreates, okResolves >>

\* Create: s.repo.Create(ctx, link) and the return
CreateInsert(p) ==
    /\ pc[p] = "insert"
    /\ \E up \in BOOLEAN, idOutcomes \in [1..(IdGenRetries + 1) -> BOOLEAN],
          newId \in 1..(Len(rows) + 1) :
         LET r == RepoCreate(rows, now, up, idOutcomes, newId, req[p].url, slug[p])
         IN  /\ calls' = [calls EXCEPT ![p].create = @ + 1,
                                       ![p].insert = IF r.stored THEN @ + 1 ELSE @,
                                       ![p].rejected =
                                            IF r.stored /\ r.err # Nil /\ r.err.type = "PgError"
                                               /\ r.err.constraint = SchemaSlugIndex
                                            THEN @ + 1 ELSE @,
                                       ![p].repoKind =
                                            IF r.err # Nil THEN KindOf(r.err) ELSE ""]
             /\ rows' = r.table
             /\ now' = IF r.table # rows THEN now + 1 ELSE now
             /\ IF r.err # Nil
                THEN /\ Return(p, ServiceError("shortener.service.Create", r.err), NoLink, "")
                     /\ UNCHANGED okCreates
                ELSE /\ Return(p, Nil, r.link, "")
                     /\ okCreates' = Append(okCreates, r.link)
    /\ UNCHANGED << slugLength, req, started, okResolves >>

\* ------------------------------------------------------------------------
\* service.GetBySlug, service.Resolve, service.Delete
\* ------------------------------------------------------------------------

\* the validation the three operations start with
LookupBegin(p, op) ==
    \E s \in LookupSlugs :
        /\ Begin(p, op, "", s)
        /\ IF validateSlugNotEmpty(s) # Nil
           THEN Return(p, E(op, "Invalid", validateSlugNotEmpty(s)), NoLink, "")
           ELSE Continue(p, op, EmptyString, 0)
        /\ UNCHANGED << rows, now, slugLength, okCreates, okResolves >>

GetBySlugBegin(p) == LookupBegin(p, "shortener.service.GetBySlug")

ResolveBegin(p) == LookupBegin(p, "shortener.service.Resolve")

DeleteBegin(p) == LookupBegin(p, "shortener.service.Delete")

\* GetBySlug: s.repo.GetBySlug(ctx, slug) and the return
GetBySlugStore(p) ==
    /\ pc[p] = "shortener.service.GetBySlug"
    /\ \E up \in BOOLEAN :
         LET r == RepoGetBySlug(rows, up, req[p].slug)
         IN  /\ calls' = [calls EXCEPT ![p].get = @ + 1]
             /\ IF r.err # Nil
                THEN Return(p, ServiceError("shortener.service.GetBySlug", r.err), NoLink, "")
                ELSE Return(p, Nil, r.link, "")
    /\ UNCHANGED << rows, now, slugLength, req, started, okCreates, okResolves >>

\* Resolve: s.repo.ResolveAndTrack(ctx, slug) and the return
ResolveStore(p) ==
    /\ pc[p] = "shortener.service.Resolve"
    /\ \E up \in BOOLEAN :
         LET r == RepoResolveAndTrack(rows, now, up, req[p].slug)
         IN  /\ calls' = [calls EXCEPT ![p].track = @ + 1]
             /\ rows' = r.table
             /\ now' = IF r.table # rows THEN now + 1 ELSE now
             /\ IF r.err # Nil
                THEN /\ Return(p, ServiceError("shortener.service.Resolve", r.err), NoLink, "")
                     /\ UNCHANGED okResolves
                ELSE /\ Return(p, Nil, NoLink, r.link.OriginalURL)
                     /\ okResolves' = Append(okResolves, r.link.ID)
    /\ UNCHANGED << slugLength, req, started, okCreates >>

\* Delete: s.repo.Delete(ctx, slug) and the return
DeleteStore(p) ==
    /\ pc[p] = "shortener.service.Delete"
    /\ \E up \in BOOLEAN :
         LET r == RepoDelete(rows, now, up, req[p].slug)
         IN  /\ calls' = [calls EXCEPT ![p].del = @ + 1]
             /\ rows' = r.table
             /\ now' = IF r.table # rows THEN now + 1 ELSE now
             /\ IF r.err # Nil
                THEN Return(p, ServiceError("shortener.service.Delete", r.err), NoLink, "")
                ELSE Return(p, Nil, NoLink, "")
    /\ UNCHANGED << slugLength, req, started, okCreates, okResolves >>

Next ==
    \E p \in Procs :
        \/ CreateBegin(p)
        \/ SlugGenerate(p)
        \/ SlugPreCheck(p)
        \/ CreateInsert(p)
        \/ GetBySlugBegin(p)
        \/ GetBySlugStore(p)
        \/ ResolveBegin(p)
        \/ ResolveStore(p)
        \/ DeleteBegin(p)
        \/ DeleteStore(p)
        \/ Forget(p)

Spec == Init /\ [][Next]_vars

\* the next generator or store call of caller p's Create returns
CreateCallReturns(p) == SlugGenerate(p) \/ SlugPreCheck(p) \/ CreateInsert(p)

\* the same behaviours, on the assumption that every generator or store call
\* a Create makes returns
SpecFair == Spec /\ \A p \in Procs : WF_vars(CreateCallReturns(p))

\* ------------------------------------------------------------------------
\* Create's slug validation over a wide range of custom slugs: one caller,
\* Create up to its first store call
\* ------------------------------------------------------------------------

\* length of the short custom slugs that are enumerated in full
MaxSampleLen == 3

\* 'a', 'Z', '0', '-', '_', '!'
SampleChars == {97, 90, 48, Dash, Underscore, 33}

\* the characters next to the ends of the three ranges of isValidSlugChar, and
\* ' ', '.', U+00E9 (two bytes in UTF-8)
EdgeChars == {47, 48, 57, 58, 64, 65, 90, 91, 96, 97, 122, 123, 32, 46, 233}

SlugSamples ==
    UNION {[1..n -> SampleChars] : n \in 1..MaxSampleLen}
    \cup {<<97, c, 97>> : c \in EdgeChars}
    \cup {Rep(97, n) : n \in {MaxSlugLength - 1, MaxSlugLength, MaxSlugLength + 1}}
    \cup {<<Dash>> \o Rep(97, MaxSlugLength - 1), Rep(97, MaxSlugLength - 1) \o <<Underscore>>,
          <<233, 97>>, Rep(97, MaxSlugLength - 1) \o <<233>>}

CreateValidate(p) == CreateBeginWith(p, {"https://example.com"}, SlugSamples)

NextSlugRules == CreateValidate(1) \/ Forget(1)

SpecSlugRules == Init /\ [][NextSlugRules]_vars

\* ------------------------------------------------------------------------
\* A direct call of Generator.Generate(length), as the generator's own tests
\* make it, on every length and byte sequence of a bounded range
\* ------------------------------------------------------------------------

\* largest length the generator is called with
MaxGenLength == 3

GenLengths == (0 - 1)..MaxGenLength

\* values of a byte rand.Read delivers
ByteSamples == {0, 9, 10, 35, 36, 61, 62, 255}

GenInputs ==
    UNION {{[NoGen EXCEPT !.length = n, !.readErr = e, !.bytes = b] :
                e \in BOOLEAN, b \in [1..(IF n > 0 THEN n ELSE 0) -> ByteSamples]} :
           n \in GenLengths}

InitGenerate == InitService /\ gen \in GenInputs /\ idgen = NoIdGen

GenerateCall ==
    /\ ~gen.called
    /\ LET g == Generate(gen.length, gen.readErr, gen.bytes)
       IN  gen' = [gen EXCEPT !.called = TRUE, !.reads = g.reads,
                              !.slug = g.slug, !.err = g.err]
    /\ UNCHANGED << rows, now, slugLength, pc, req, slug, attempt, calls, ret,
                    started, okCreates, okResolves, configured, idgen >>

NextGenerate == GenerateCall

SpecGenerate == InitGenerate /\ [][NextGenerate]_vars

\* ------------------------------------------------------------------------
\* A direct call of the v7 id generator built with NewV7(WithRetries(n)), and
\* of repo.Create on the repository's own generator, against given outcomes
\* of uuid.NewV7
\* ------------------------------------------------------------------------

\* largest retry budget the generator is built with
MaxIdRetries == 4

IdGenInputs ==
    UNION {{[NoIdGen EXCEPT !.option = n, !.budget = V7MaxRetries(n),
                            !.outcomes = o, !.id = 1] :
                o \in [1..(V7MaxRetries(n) + 1) -> BOOLEAN]} :
           n \in (0 - 1)..MaxIdRetries}

InitIdGen == InitService /\ gen = NoGen /\ idgen \in IdGenInputs

IdGenCall ==
    /\ ~idgen.called
    /\ LET g == V7Generate(idgen.budget, idgen.outcomes, idgen.id)
       IN  idgen' = [idgen EXCEPT !.called = TRUE, !.attempts = g.attempts,
                                  !.outId = g.id, !.err = g.err]
    /\ UNCHANGED << rows, now, slugLength, pc, req, slug, attempt, calls, ret,
                    started, okCreates, okResolves, gen, configured >>

\* repo.Create of a Link without id, on the generator NewRepository builds
RepoCreateCall ==
    /\ ~idgen.repoCalled
    /\ idgen.budget = IdGenRetries
    /\ \E up \in BOOLEAN :
         LET r == RepoCreate(rows, now, up, idgen.outcomes, idgen.id,
                             "https://example.com", <<97, 98, 99>>)
         IN  idgen' = [idgen EXCEPT !.repoCalled = TRUE, !.repoErr = r.err,
                                    !.stored = r.stored, !.table = r.table]
    /\ UNCHANGED << rows, now, slugLength, pc, req, slug, attempt, calls, ret,
                    started, okCreates, okResolves, gen, configured >>

NextIdGen == IdGenCall \/ RepoCreateCall

SpecIdGen == InitIdGen /\ [][NextIdGen]_vars

\* ------------------------------------------------------------------------
\* The generated-slug path of one caller's Creates on a Service built with
\* slug lengths in and out of range
\* ------------------------------------------------------------------------

ConfigSamples == {0 - 1, 0, MinSlugLength - 1, MinSlugLength, DefaultSlugLength,
                  SchemaMaxSlugLength, MaxSlugLength, MaxSlugLength + 1, 100}

InitConfig == InitServiceWith(ConfigSamples) /\ gen = NoGen /\ idgen = NoIdGen

CreateGenerated(p) == CreateBeginWith(p, {"https://example.com"}, {EmptyString})

NextConfig ==
    \/ CreateGenerated(1)
    \/ SlugGenerate(1)
    \/ SlugPreCheck(1)
    \/ CreateInsert(1)
    \/ Forget(1)

SpecConfig == InitConfig /\ [][NextConfig]_vars

\* ------------------------------------------------------------------------
\* One caller's Creates with valid custom slugs of lengths around the
\* schema's limit
\* ------------------------------------------------------------------------

\* "abc" and slugs of 32, 33 and 64 characters
LongSlugs ==
    {<<97, 98, 99>>}
    \cup {Rep(97, n) : n \in {SchemaMaxSlugLength, SchemaMaxSlugLength + 1, MaxSlugLength}}

CreateCustom(p) == CreateBeginWith(p, {"https://example.com"}, LongSlugs)

NextLongSlugs == CreateCustom(1) \/ CreateInsert(1) \/ Forget(1)

SpecLongSlugs == Init /\ [][NextLongSlugs]_vars

\* ------------------------------------------------------------------------
\* Vocabulary of the properties
\* ------------------------------------------------------------------------

\* caller p has a finished Create call whose result is in ret[p]
DoneCreate(p) == pc[p] = "done" /\ req[p].op = "shortener.service.Create"

\* ... on the generated-slug path (valid URL, empty custom slug)
DoneGenerated(p) ==
    DoneCreate(p) /\ req[p].url = "https://example.com" /\ req[p].slug = EmptyString

\* ... on the custom-slug path with the valid custom slug "abc"
DoneCustom(p) ==
    DoneCreate(p) /\ req[p].url = "https://example.com" /\ req[p].slug = <<97, 98, 99>>

\* the stored row with the given id
RowById(id) == rows[CHOOSE k \in 1..Len(rows) : rows[k].id = id]

\* number of successful Resolve calls that tracked the row with the given id
ResolvesOf(id) == Cardinality({k \in 1..Len(okResolves) : okResolves[k] = id})

\* every failure the call met came from the slug index rejecting its write
OnlyUniquenessFailures(p) == ret[p].err = Nil \/ calls[p].rejected = calls[p].create

\* ------------------------------------------------------------------------
\* C1: no two successful Create calls return Links with the same slug.
\* As stated it fails: the slug index covers live rows only, so a slug is
\* free again once its link is deleted.
\* ------------------------------------------------------------------------

\* C1 (as stated): any two Links returned by successful Creates differ in slug
C1_AllReturnedSlugsDistinct ==
    \A i, j \in 1..Len(okCreates) :
        i # j => okCreates[i].Slug # okCreates[j].Slug

\* C1 (amended): two successful Creates return the same slug only if the Link
\* the earlier one returned was deleted before the later one was inserted
C1_ReturnedSlugsDistinctWhileLive ==
    \A i, j \in 1..Len(okCreates) :
        (i < j /\ okCreates[i].Slug = okCreates[j].Slug)
            => /\ RowById(okCreates[i].ID).deleted_at # NULL
               /\ RowById(okCreates[i].ID).deleted_at <= okCreates[j].CreatedAt

\* a slug has been returned a second time, by a Create that followed a Delete
C1_Witness ==
    \E i, j \in 1..Len(okCreates) :
        /\ i < j
        /\ okCreates[i].Slug = okCreates[j].Slug
        /\ \E p \in Procs : DoneCreate(p) /\ ret[p].err = Nil /\ ret[p].link = okCreates[j]

\* ------------------------------------------------------------------------
\* C2: in every reachable state at most one live Link exists per slug.
\* ------------------------------------------------------------------------
C2_OneLiveLinkPerSlug ==
    \A i, j \in 1..Len(rows) :
        (rows[i].slug = rows[j].slug /\ rows[i].deleted_at = NULL /\ rows[j].deleted_at = NULL)
            => i = j

\* a Create was turned away by the slug index while a live link is stored
C2_Witness ==
    /\ \E p \in Procs : DoneCreate(p) /\ calls[p].rejected = 1
    /\ \E i \in 1..Len(rows) : rows[i].deleted_at = NULL

\* ------------------------------------------------------------------------
\* C3: of k >= 2 concurrent Creates with the same valid custom slug, free in
\* a store that does not otherwise fail, one succeeds and the others return
\* Conflict.
\* ------------------------------------------------------------------------
C3_OneWinnerOthersConflict ==
    \A p, q \in Procs :
        ( /\ p # q
          /\ DoneCustom(p) /\ DoneCustom(q)
          /\ OnlyUniquenessFailures(p) /\ OnlyUniquenessFailures(q)
          /\ \A k \in 1..Len(rows) :
                rows[k].slug = <<97, 98, 99>>
                    => rows[k].deleted_at = NULL /\ rows[k].id \in {ret[p].link.ID, ret[q].link.ID} )
        => \/ ret[p].err = Nil /\ KindOf(ret[q].err) = "Conflict"
           \/ ret[q].err = Nil /\ KindOf(ret[p].err) = "Conflict"

\* ------------------------------------------------------------------------
\* C4: N successful Resolve calls of a live slug, in any interleaving, raise
\* its access_count by exactly N.
\* ------------------------------------------------------------------------
C4_NoLostIncrement ==
    \A i \in 1..Len(rows) : rows[i].access_count = ResolvesOf(rows[i].id)

\* two callers have resolved the same slug successfully and its count is 2
C4_Witness ==
    \E p, q \in Procs :
        /\ p # q
        /\ pc[p] = "done" /\ req[p].op = "shortener.service.Resolve" /\ ret[p].err = Nil
        /\ pc[q] = "done" /\ req[q].op = "shortener.service.Resolve" /\ ret[q].err = Nil
        /\ req[p].slug = req[q].slug
        /\ \E i \in 1..Len(rows) : rows[i].slug = req[p].slug /\ rows[i].access_count = 2

\* ------------------------------------------------------------------------
\* C5: on the generated-slug path, if the store rejects every candidate write
\* for uniqueness, Create returns Unavailable after exactly MaxRetries
\* generator calls and MaxRetries store creates.
\* ------------------------------------------------------------------------
C5_ExhaustsAllAttempts ==
    \A p \in Procs :
        (DoneGenerated(p) /\ calls[p].rejected >= 1 /\ calls[p].rejected = calls[p].create)
            => /\ KindOf(ret[p].err) = "Unavailable"
               /\ calls[p].gen = MaxRetries
               /\ calls[p].create = MaxRetries

\* ------------------------------------------------------------------------
\* C6: on the generated-slug path, when the first candidate write is rejected
\* for uniqueness the call writes a second candidate (and returns it when the
\* store accepts it): the rejection of the first write never ends the call.
\* ------------------------------------------------------------------------
C6_SecondCandidateAfterConflict ==
    [][ \A p \in Procs :
          ( /\ pc[p] = "insert" /\ req[p].slug = EmptyString
            /\ calls[p].rejected = 0 /\ calls'[p].rejected = 1 /\ calls'[p].create = 1 )
          => /\ pc'[p] = "generate"
             /\ calls'[p].gen = 1 ]_vars

\* ------------------------------------------------------------------------
\* C7: a Create with a valid custom slug calls the store's create once and
\* the generator never; when the write is rejected for uniqueness it returns
\* Conflict without a retry.
\* ------------------------------------------------------------------------
C7_CustomSlugConflictNoRetry ==
    \A p \in Procs :
        DoneCustom(p)
            => /\ calls[p].gen = 0
               /\ calls[p].create = 1
               /\ (calls[p].rejected = 1 => KindOf(ret[p].err) = "Conflict")

\* ------------------------------------------------------------------------
\* C8: a Create with an empty custom slug never returns Conflict; a
\* uniqueness violation on a generated candidate makes it generate a new
\* candidate, and it fails (with Unavailable) only once the attempts are
\* exhausted.
\* ------------------------------------------------------------------------
C8_GeneratedNeverConflict ==
    \A p \in Procs :
        DoneGenerated(p)
            => /\ KindOf(ret[p].err) # "Conflict"
               /\ (ret[p].err # Nil /\ calls[p].rejected >= 1)
                    => /\ KindOf(ret[p].err) = "Unavailable"
                       /\ (calls[p].gen > calls[p].rejected \/ calls[p].gen = MaxRetries)

\* ------------------------------------------------------------------------
\* C9: on the generated-slug path, a store create that fails with an error
\* other than Conflict ends the call at once with that error's kind.
\* ------------------------------------------------------------------------
C9_NonConflictAborts ==
    [][ \A p \in Procs :
          ( /\ pc[p] = "insert" /\ req[p].slug = EmptyString
            /\ calls'[p].create = calls[p].create + 1
            /\ calls'[p].repoKind \notin {"", "Conflict"} )
          => /\ pc'[p] = "done"
             /\ ret'[p].err # Nil
             /\ KindOf(ret'[p].err) = calls'[p].repoKind
             /\ ret'[p].link = NoLink ]_vars

\* a generated-slug Create came back with the Unavailable of a refused connection
C9_Witness ==
    \E p \in Procs :
        /\ DoneGenerated(p)
        /\ calls[p].create = 1 /\ calls[p].insert = 1 /\ calls[p].repoKind = "Unavailable"
        /\ ret[p].err.type = "connection refused"
        /\ KindOf(ret[p].err) = "Unavailable"

\* ------------------------------------------------------------------------
\* C10: a Create whose URL or non-empty custom slug fails validation returns
\* Invalid without calling the generator or the store, and the store stays
\* as it was.
\* ------------------------------------------------------------------------

\* inputs of the model that the validation rules of the specification reject
InvalidCreateInput(r) ==
    /\ r.op = "shortener.service.Create"
    /\ \/ r.url = "ftp://example.com"
       \/ r.slug = <<Dash, 97, 98>>

\* this step is caller p entering a call
Started(p) == pc[p] = "idle" /\ pc'[p] # "idle"

\* C10: a step that starts a Create with an invalid URL or an invalid custom slug
\* ends it with Invalid, no generator or store call made and the table unchanged
C10_InvalidInputTouchesNothing ==
    [][ \A p \in Procs :
          (Started(p) /\ InvalidCreateInput(req'[p]))
          => /\ pc'[p] = "done"
             /\ KindOf(ret'[p].err) = "Invalid"
             /\ calls'[p] = NoCalls
             /\ rows' = rows ]_vars

\* a Create with an invalid custom slug has returned Invalid while links are stored
C10_Witness ==
    \E p \in Procs :
        /\ DoneCreate(p) /\ req[p].url = "https://example.com" /\ req[p].slug = <<Dash, 97, 98>>
        /\ KindOf(ret[p].err) = "Invalid"
        /\ calls[p] = NoCalls
        /\ Len(rows) >= 1

\* ------------------------------------------------------------------------
\* C11: a Create call adds exactly one Link to the table when it succeeds and
\* leaves the table as it was when it fails; a rejected write stores nothing.
\* ------------------------------------------------------------------------

\* this step is a step of caller p's Create call
CreateStep(p) ==
    pc[p] # "done" /\ pc'[p] # pc[p] /\ req'[p].op = "shortener.service.Create"

\* C11: every step of a Create call leaves the table unchanged, except the step
\* that returns success, which appends exactly the returned Link as a live row
C11_CreateAddsOneLinkOrNothing ==
    [][ \A p \in Procs :
          CreateStep(p)
          => IF pc'[p] = "done" /\ ret'[p].err = Nil
             THEN /\ Len(rows') = Len(rows) + 1
                  /\ SubSeq(rows', 1, Len(rows)) = rows
                  /\ toDomainLink(rows'[Len(rows')]).link = ret'[p].link
                  /\ rows'[Len(rows')].deleted_at = NULL
             ELSE rows' = rows ]_vars

\* one Create stored its link and another, rejected by the slug index, failed:
\* the table holds the one link
C11_Witness ==
    \E p, q \in Procs :
        /\ DoneCreate(p) /\ ret[p].err # Nil /\ calls[p].rejected = 1
        /\ DoneCreate(q) /\ ret[q].err = Nil
        /\ Len(rows) = 1 /\ rows[1].id = ret[q].link.ID

\* ------------------------------------------------------------------------
\* C12: GetBySlug and Resolve classify failures alike: Invalid for the empty
\* slug, without a store call; NotFound when the slug has no live link;
\* Unavailable for every other store failure.
\* ------------------------------------------------------------------------

LookupOps == {"shortener.service.GetBySlug", "shortener.service.Resolve"}

\* C12: the step on which a GetBySlug or Resolve call returns: for the empty slug
\* it returns Invalid and has called no store operation; otherwise it has called
\* the store once and returns success only if a live link exists, NotFound
\* exactly for a no-rows answer (no live link), Unavailable for any other failure
C12_LookupFailureKinds ==
    [][ \A p \in Procs :
          (pc[p] # "done" /\ pc'[p] = "done" /\ req'[p].op \in LookupOps)
          => LET s == req'[p].slug
                 storeCalls == calls'[p].get + calls'[p].track
                 e == ret'[p].err
             IN  IF s = EmptyString
                 THEN KindOf(e) = "Invalid" /\ storeCalls = 0 /\ rows' = rows
                 ELSE /\ storeCalls = 1
                      /\ IF e = Nil THEN LiveRows(rows, s) # {}
                         ELSE IF e.type = "ErrNoRows"
                         THEN LiveRows(rows, s) = {} /\ KindOf(e) = "NotFound"
                         ELSE KindOf(e) = "Unavailable" ]_vars

\* a GetBySlug and a Resolve of the same unknown slug both returned NotFound
C12_Witness ==
    \E p, q \in Procs :
        /\ pc[p] = "done" /\ req[p].op = "shortener.service.GetBySlug"
        /\ pc[q] = "done" /\ req[q].op = "shortener.service.Resolve"
        /\ req[p].slug = req[q].slug /\ req[p].slug # EmptyString
        /\ KindOf(ret[p].err) = "NotFound" /\ KindOf(ret[q].err) = "NotFound"

\* ------------------------------------------------------------------------
\* C13: access_count is 0 at creation, never decreases, and changes only by
\* a successful Resolve of the link's slug, by exactly 1.
\* ------------------------------------------------------------------------

\* this step is caller p's Resolve returning success
ResolvedBy(p) ==
    pc[p] = "shortener.service.Resolve" /\ pc'[p] = "done" /\ ret'[p].err = Nil

\* C13: on every step each stored link keeps its access_count, except the live
\* link whose slug a successful Resolve names, which gains exactly 1; a link
\* that enters the table has access_count 0
C13_AccessCountOnlyByResolve ==
    [][ /\ Len(rows') >= Len(rows)
        /\ \A i \in 1..Len(rows) :
              /\ rows'[i].id = rows[i].id
              /\ rows'[i].access_count =
                    rows[i].access_count
                    + (IF \E p \in Procs : /\ ResolvedBy(p)
                                           /\ req[p].slug = rows[i].slug
                                           /\ rows[i].deleted_at = NULL
                       THEN 1 ELSE 0)
        /\ \A i \in (Len(rows) + 1)..Len(rows') : rows'[i].access_count = 0 ]_vars

\* a link resolved once was deleted afterwards and still counts one access
C13_Witness ==
    \E p \in Procs, i \in 1..Len(rows) :
        /\ pc[p] = "done" /\ req[p].op = "shortener.service.Delete" /\ ret[p].err = Nil
        /\ rows[i].slug = req[p].slug
        /\ rows[i].deleted_at # NULL
        /\ rows[i].access_count = 1

\* ------------------------------------------------------------------------
\* C14: Delete(slug) twice in succession leaves the same store state and
\* gives the caller the same outcome as Delete(slug) once.
\* ------------------------------------------------------------------------

C15_DeletedSlugIsFreeAgain ==
    [][ \A p \in Procs :
          ( /\ pc[p] = "insert" /\ pc'[p] = "done" /\ req[p].slug # EmptyString
            /\ \E i \in 1..Len(rows) : rows[i].slug = req[p].slug
            /\ \A i \in 1..Len(rows) : rows[i].slug = req[p].slug => rows[i].deleted_at # NULL )
          => /\ KindOf(ret'[p].err) # "Conflict"
             /\ calls'[p].rejected = 0
             /\ IF ret'[p].err = Nil
                THEN /\ Len(rows') = Len(rows) + 1
                     /\ rows'[Len(rows')].slug = req[p].slug
                     /\ rows'[Len(rows')].deleted_at = NULL
                ELSE \/ ret'[p].err.type \in {"connection refused", "uuid v7 generation failed"}
                     \/ ret'[p].err.constraint = SchemaPrimaryKey ]_vars

\* a Create with the custom slug of a deleted link has stored a second, live link
C15_Witness ==
    \E p \in Procs, i, j \in 1..Len(rows) :
        /\ DoneCustom(p) /\ ret[p].err = Nil
        /\ rows[i].slug = req[p].slug /\ rows[i].deleted_at # NULL
        /\ rows[j].slug = req[p].slug /\ rows[j].deleted_at = NULL
        /\ rows[j].id = ret[p].link.ID

\* ------------------------------------------------------------------------
\* C16: the translator at the store boundary maps a no-rows result to
\* NotFound, a 23505 violation of the schema's slug uniqueness constraint to
\* Conflict and every other error to Unavailable, labelled with the calling
\* repository operation.
\* ------------------------------------------------------------------------

RepoOps == {"shortener.repo.Create", "shortener.repo.GetBySlug",
            "shortener.repo.ResolveAndTrack", "shortener.repo.Delete"}

\* C16: every error of a store statement that has reached a caller carries,
\* from the repository, the operation's label and the kind the rule gives it
C16_TranslatorKinds ==
    \A p \in Procs :
        LET e == ret[p].err
        IN  (pc[p] = "done" /\ e.type \in {"ErrNoRows", "PgError", "connection refused"})
            => /\ Len(e.frames) = 2
               /\ e.frames[2].op \in RepoOps
               /\ e.frames[2].kind =
                    IF e.type = "ErrNoRows" THEN "NotFound"
                    ELSE IF e.type = "PgError" /\ e.code = "23505"
                            /\ e.constraint = SchemaSlugIndex
                    THEN "Conflict"
                    ELSE "Unavailable"

\* ------------------------------------------------------------------------
\* C17: an error a lower layer returns to a Service operation leaves the
\* Service with the same kind, the Service operation's label outermost and
\* the original cause still in its chain.
\* ------------------------------------------------------------------------

LowerOps == RepoOps \cup {"sluggen.Generate"}

RawCauses == {"ErrNoRows", "PgError", "connection refused", "uuid v7 generation failed",
              "rand.Read failed", "length must be positive",
              "failed to generate unique slug after maximum retries"}

\* C17: the error of a call that failed after calling a lower layer has the
\* Service operation as its outermost label, below it the lower layer's frame
\* with the same kind, and the raw cause at the end of the chain
C17_ServiceKeepsKindOpCause ==
    \A p \in Procs :
        (pc[p] = "done" /\ ret[p].err # Nil /\ calls[p] # NoCalls)
        => LET e == ret[p].err
           IN  /\ OpOf(e) = req[p].op
               /\ Len(e.frames) >= 2
               /\ e.frames[2].op \in LowerOps
               /\ KindOf(e) = e.frames[2].kind
               /\ e.type \in RawCauses

\* a Resolve of an unknown slug returned the repository's NotFound under its own label
C17_Witness ==
    \E p \in Procs :
        /\ pc[p] = "done" /\ req[p].op = "shortener.service.Resolve"
        /\ ret[p].err.type = "ErrNoRows"
        /\ ret[p].err.frames = << [op |-> "shortener.service.Resolve", kind |-> "NotFound"],
                                  [op |-> "shortener.repo.ResolveAndTrack", kind |-> "NotFound"] >>

\* ------------------------------------------------------------------------
\* C18: slug validation accepts a slug exactly when it has 3 to 64
\* characters, all of them in [A-Za-z0-9_-], and neither its first nor its
\* last character is '-' or '_'; every other non-empty custom slug makes
\* Create fail with Invalid.
\* ------------------------------------------------------------------------

SlugAlphabet == (48..57) \cup (65..90) \cup (97..122) \cup {45, 95}

\* the rule as the claim words it
SlugRuleAccepts(s) ==
    /\ Len(s) >= 3 /\ Len(s) <= 64
    /\ \A i \in 1..Len(s) : s[i] \in SlugAlphabet
    /\ s[1] \notin {45, 95}
    /\ s[Len(s)] \notin {45, 95}

\* C18: a Create with a non-empty custom slug goes on to its store call with
\* that slug exactly when the rule accepts the slug, and otherwise has returned
\* Invalid without calling anything
C18_SlugValidationRule ==
    \A p \in Procs :
        (pc[p] # "idle" /\ req[p].op = "shortener.service.Create" /\ req[p].slug # EmptyString)
        => IF SlugRuleAccepts(req[p].slug)
           THEN pc[p] = "insert" /\ slug[p] = req[p].slug /\ ret[p] = NoRet
           ELSE pc[p] = "done" /\ KindOf(ret[p].err) = "Invalid" /\ calls[p] = NoCalls

\* a custom slug of the greatest accepted length has passed validation
C18_Witness ==
    \E p \in Procs : pc[p] = "insert" /\ Len(slug[p]) = 64 /\ slug[p] = req[p].slug

\* ------------------------------------------------------------------------
\* C19: for every length > 0 and every sequence of random bytes the base62
\* generator returns a string of exactly that length over 0-9, A-Z, a-z.
\* ------------------------------------------------------------------------

Base62Alphabet == (48..57) \cup (65..90) \cup (97..122)

\* C19: a call with a positive length whose read of the randomness source
\* delivered its bytes returns no error and a string of that length, every
\* character of which is a digit or an ASCII letter
C19_GenerateLengthAndAlphabet ==
    (gen.called /\ gen.length > 0 /\ ~gen.readErr)
    => /\ gen.err = Nil
       /\ Len(gen.slug) = gen.length
       /\ \A i \in 1..Len(gen.slug) : gen.slug[i] \in Base62Alphabet

\* the bytes 255, 62, 61 have become "70z"
C19_Witness ==
    /\ gen.called /\ gen.length = 3 /\ ~gen.readErr
    /\ gen.bytes = <<255, 62, 61>>
    /\ gen.slug = <<55, 48, 122>>

\* ------------------------------------------------------------------------
\* C20: Generate(length) with length <= 0 fails with an error of kind
\* Invalid, before it reads the randomness source.
\* ------------------------------------------------------------------------
C20_NonPositiveLengthInvalid ==
    (gen.called /\ gen.length <= 0)
    => /\ gen.err # Nil
       /\ KindOf(gen.err) = "Invalid"
       /\ gen.reads = 0

\* ------------------------------------------------------------------------
\* C21: the id, the slug and the original_url of a created Link never change,
\* whatever Create, GetBySlug, Resolve and Delete calls follow.
\* ------------------------------------------------------------------------

\* C21: every step keeps every stored row in its place with its id, slug and
\* original_url, and every Link a Create returned is stored with the id, slug
\* and original_url it was returned with
C21_IdentityFieldsImmutable ==
    [][ /\ Len(rows') >= Len(rows)
        /\ \A i \in 1..Len(rows) :
              /\ rows'[i].id = rows[i].id
              /\ rows'[i].slug = rows[i].slug
              /\ rows'[i].original_url = rows[i].original_url
        /\ \A k \in 1..Len(okCreates') :
              \E i \in 1..Len(rows') :
                  /\ rows'[i].id = okCreates'[k].ID
                  /\ rows'[i].slug = okCreates'[k].Slug
                  /\ rows'[i].original_url = okCreates'[k].OriginalURL ]_vars

\* a created link has been resolved and then deleted, and is stored as created
C21_Witness ==
    \E p \in Procs, i \in 1..Len(rows) :
        /\ pc[p] = "done" /\ req[p].op = "shortener.service.Delete" /\ ret[p].err = Nil
        /\ rows[i].deleted_at # NULL /\ rows[i].access_count = 1
        /\ Len(okCreates) = 1
        /\ rows[i].id = okCreates[1].ID
        /\ rows[i].slug = okCreates[1].Slug
        /\ rows[i].original_url = okCreates[1].OriginalURL

\* ------------------------------------------------------------------------
\* C22: during Create the Service never looks a slug up before inserting it
\* (no store get_by_slug on a generated candidate or a custom slug).
\* ------------------------------------------------------------------------
C22_NoLookupBeforeInsert ==
    \A p \in Procs :
        req[p].op = "shortener.service.Create" => calls[p].get = 0

\* ------------------------------------------------------------------------
\* C24: when the slug generator returns an error on the generated-slug path,
\* Create returns Unavailable, writes nothing to the store and does not call
\* the generator again.
\* ------------------------------------------------------------------------

\* C24: a step on which the generator was called and delivered no candidate
\* ends the call with Unavailable, the table untouched and no write made
C24_GeneratorErrorAborts ==
    [][ \A p \in Procs :
          (pc[p] = "generate" /\ calls'[p].gen = calls[p].gen + 1 /\ pc'[p] # "precheck")
          => /\ pc'[p] = "done"
             /\ KindOf(ret'[p].err) = "Unavailable"
             /\ ret'[p].err.type = "rand.Read failed"
             /\ ret'[p].link = NoLink
             /\ calls'[p].create = 0 /\ calls'[p].insert = 0
             /\ rows' = rows ]_vars

\* a generated-slug Create has failed on its first generator call
C24_Witness ==
    \E p \in Procs :
        /\ DoneGenerated(p)
        /\ ret[p].err.type = "rand.Read failed"
        /\ KindOf(ret[p].err) = "Unavailable"
        /\ calls[p].gen = 1 /\ calls[p].get = 0 /\ calls[p].create = 0

\* ------------------------------------------------------------------------
\* C28: once Delete(slug) has succeeded and until a later Create of the slug
\* succeeds, GetBySlug(slug) and Resolve(slug) return NotFound and the deleted
\* link's access_count and last_accessed_at stay as they are, also when a
\* Resolve runs concurrently with the Delete.
\* ------------------------------------------------------------------------

\* the slug has links and all of them are deleted
AllDeleted(s) ==
    /\ \E i \in 1..Len(rows) : rows[i].slug = s
    /\ \A i \in 1..Len(rows) : rows[i].slug = s => rows[i].deleted_at # NULL

\* C28: no step changes the access_count, last_accessed_at or deleted_at of a
\* deleted link, and a GetBySlug or Resolve that reaches the store while all
\* links of its slug are deleted fails, with NotFound unless the connection failed
C28_DeletedLinkIsGone ==
    [][ /\ \A i \in 1..Len(rows) :
              rows[i].deleted_at # NULL
              => /\ rows'[i].access_count = rows[i].access_count
                 /\ rows'[i].last_accessed_at = rows[i].last_accessed_at
                 /\ rows'[i].deleted_at = rows[i].deleted_at
        /\ \A p \in Procs :
              ( /\ pc[p] \in LookupOps /\ pc'[p] = "done"
                /\ AllDeleted(req[p].slug) )
              => /\ ret'[p].err # Nil
                 /\ ret'[p].err.type # "connection refused" => KindOf(ret'[p].err) = "NotFound" ]_vars

\* a Resolve that ran alongside a successful Delete of its slug returned
\* NotFound, and the deleted link was never counted as accessed
C28_Witness ==
    \E p, q \in Procs, i \in 1..Len(rows) :
        /\ pc[p] = "done" /\ req[p].op = "shortener.service.Delete" /\ ret[p].err = Nil
        /\ pc[q] = "done" /\ req[q].op = "shortener.service.Resolve"
        /\ KindOf(ret[q].err) = "NotFound"
        /\ req[p].slug = req[q].slug
        /\ rows[i].slug = req[p].slug /\ rows[i].deleted_at # NULL
        /\ rows[i].access_count = 0 /\ rows[i].last_accessed_at = NULL

\* ------------------------------------------------------------------------
\* C29: a link's last_accessed_at is null exactly when its access_count is 0.
\* ------------------------------------------------------------------------

\* C29: in every state, for every stored row and for every Link a Create or a
\* GetBySlug returned, last_accessed_at is null exactly when access_count is 0
C29_LastAccessedIffCounted ==
    /\ \A i \in 1..Len(rows) :
          (rows[i].last_accessed_at = NULL) <=> (rows[i].access_count = 0)
    /\ \A p \in Procs :
          ( /\ pc[p] = "done" /\ ret[p].err = Nil
            /\ req[p].op \in {"shortener.service.Create", "shortener.service.GetBySlug"} )
          => ((ret[p].link.LastAccessedAt = NULL) <=> (ret[p].link.AccessCount = 0))

\* a GetBySlug has returned a link that was resolved once, with its access time
C29_Witness ==
    \E p \in Procs :
        /\ pc[p] = "done" /\ req[p].op = "shortener.service.GetBySlug" /\ ret[p].err = Nil
        /\ ret[p].link.AccessCount = 1
        /\ ret[p].link.LastAccessedAt # NULL

\* ------------------------------------------------------------------------
\* C30: a uniqueness violation on the link id (primary key) is never
\* classified as Conflict: Create returns Unavailable and generates no new slug.
\* ------------------------------------------------------------------------

\* C30: a write the primary key rejects ends the Create at once with
\* Unavailable, from the repository on, and without another generator call
C30_PrimaryKeyViolationUnavailable ==
    [][ \A p \in Procs :
          (pc[p] = "insert" /\ pc'[p] # "insert" /\ ret'[p].err.constraint = SchemaPrimaryKey)
          => /\ pc'[p] = "done"
             /\ calls'[p].repoKind = "Unavailable"
             /\ KindOf(ret'[p].err) = "Unavailable"
             /\ calls'[p].gen = calls[p].gen
             /\ rows' = rows ]_vars

\* a Create whose id was already taken has returned Unavailable
C30_Witness ==
    \E p \in Procs :
        /\ DoneCreate(p)
        /\ ret[p].err.type = "PgError" /\ ret[p].err.code = "23505"
        /\ ret[p].err.constraint = SchemaPrimaryKey
        /\ KindOf(ret[p].err) = "Unavailable"
        /\ calls[p].rejected = 0

\* ------------------------------------------------------------------------
\* C23: every Create call terminates: if each store and generator call
\* returns, Create reaches success or a terminal error after at most N
\* candidate attempts, whatever the store and the other callers do.
\* ------------------------------------------------------------------------

\* caller p is inside a Create call
InCreate(p) == pc[p] \in {"generate", "precheck", "insert"}

\* a Create never makes more than MaxRetries candidate attempts, nor more
\* than one write
WithinAttempts ==
    \A p \in Procs :
        /\ attempt[p] < MaxRetries
        /\ calls[p].gen <= MaxRetries
        /\ calls[p].get <= MaxRetries
        /\ calls[p].create <= 1

\* C23: a Create stays within MaxRetries candidate attempts, and every Create
\* returns: a behaviour holds MaxCalls calls at most, so this is to say that
\* from some point on no caller is inside a Create any more
C23_CreateTerminates ==
    /\ []WithinAttempts
    /\ <>[](\A p \in Procs : ~InCreate(p))

\* a Create has used up all its candidate attempts and returned
C23_Witness ==
    \E p \in Procs :
        /\ DoneGenerated(p)
        /\ calls[p].gen = MaxRetries /\ calls[p].get = MaxRetries /\ calls[p].create = 0
        /\ ret[p].err.type = "failed to generate unique slug after maximum retries"

\* ------------------------------------------------------------------------
\* C25: the v7 id generator with retry budget r makes at most r+1 attempts,
\* returns the first successful id without a further attempt and fails only
\* after r+1 failed attempts (default r = 1); the repository reports that
\* failure as Unavailable without calling the store.
\* ------------------------------------------------------------------------

\* the attempts among the first budget+1 on which uuid.NewV7 succeeds
GoodAttempts == {k \in 1..(idgen.budget + 1) : idgen.outcomes[k]}

\* C25: a call made budget+1 attempts at most; with a successful attempt among
\* them it stopped at the first and returned its id, otherwise it made them all
\* and failed; a negative option leaves the budget at 1; repo.Create on a
\* failing generator returns Unavailable and sends nothing to the store
C25_IdGenRetryBudget ==
    /\ idgen.option < 0 => idgen.budget = 1
    /\ idgen.called
         => /\ idgen.attempts <= idgen.budget + 1
            /\ IF GoodAttempts # {}
               THEN /\ idgen.err = Nil
                    /\ idgen.outId = idgen.id
                    /\ idgen.attempts \in GoodAttempts
                    /\ \A k \in GoodAttempts : idgen.attempts <= k
               ELSE /\ idgen.err # Nil
                    /\ idgen.outId = 0
                    /\ idgen.attempts = idgen.budget + 1
    /\ (idgen.repoCalled /\ GoodAttempts = {})
         => /\ KindOf(idgen.repoErr) = "Unavailable"
            /\ OpOf(idgen.repoErr) = "shortener.repo.Create"
            /\ ~idgen.stored
            /\ idgen.table = rows

\* the default generator failed after two attempts and repo.Create returned
\* Unavailable
C25_Witness ==
    /\ idgen.called /\ idgen.repoCalled
    /\ idgen.option < 0 /\ idgen.budget = 1
    /\ idgen.outcomes = <<FALSE, FALSE>>
    /\ idgen.attempts = 2 /\ idgen.err # Nil
    /\ KindOf(idgen.repoErr) = "Unavailable"

\* ------------------------------------------------------------------------
\* C26: NewService uses the configured slug length when it lies in [3, 64]
\* and 7 otherwise, so every length the Service asks of the slug generator
\* lies in [3, 64].
\* ------------------------------------------------------------------------
C26_SlugLengthInRange ==
    /\ slugLength = IF configured >= 3 /\ configured <= 64 THEN configured ELSE 7
    /\ \A p \in Procs :
          calls[p].gen > 0
          => /\ calls[p].genLength = slugLength
             /\ calls[p].genLength >= 3 /\ calls[p].genLength <= 64
             /\ pc[p] \in {"precheck", "insert"} => Len(slug[p]) = slugLength

\* a Service configured with length 100 has generated a candidate of 7 characters
C26_Witness ==
    /\ configured = 100
    /\ \E p \in Procs : pc[p] = "insert" /\ calls[p].genLength = 7 /\ Len(slug[p]) = 7

\* ------------------------------------------------------------------------
\* C27: every slug that passes the Service's validation also satisfies the
\* schema's length CHECK, so a Create with a valid, unused custom slug
\* against a healthy store succeeds instead of failing with Unavailable.
\* ------------------------------------------------------------------------

\* C27: a valid custom slug satisfies the CHECK, and a Create with it fails only
\* when the connection, the id generator, the primary key or the slug index
\* turns it away
C27_ValidSlugFitsSchema ==
    \A p \in Procs :
        (DoneCreate(p) /\ req[p].slug # EmptyString /\ validateSlug(req[p].slug) = Nil)
        => /\ ~SlugCheckViolated(req[p].slug)
           /\ ret[p].err # Nil
                => \/ ret[p].err.type \in {"connection refused", "uuid v7 generation failed"}
                   \/ ret[p].err.constraint \in {SchemaPrimaryKey, SchemaSlugIndex}

====
